---- MODULE Spec2Model ----
(***************************************************************************)
(* Model of to_cabrillo: the ADIF decoder (adif_parser.py) and the         *)
(* command-line driver that renders the decoded contacts (__init__.py).    *)
(*                                                                         *)
(* Text is a sequence of one-character strings.  Python values carry a     *)
(* type tag: [t |-> "str", v |-> chars], [t |-> "float", v |-> number],     *)
(* [t |-> "list", v |-> seq], [t |-> "dict", v |-> seq of <<key, value>>],  *)
(* [t |-> "None"].  A dict keeps its keys in insertion order.              *)
(***************************************************************************)
EXTENDS Integers, Sequences, FiniteSets, TLC

VARIABLES pc, text, header, adif_data, parsed, out, exitmsg, row_i

vars == <<pc, text, header, adif_data, parsed, out, exitmsg, row_i>>

(***************************************************************************)
(* Characters                                                              *)
(***************************************************************************)
LowerCase == <<"a","b","c","d","e","f","g","h","i","j","k","l","m",
               "n","o","p","q","r","s","t","u","v","w","x","y","z">>
UpperCase == <<"A","B","C","D","E","F","G","H","I","J","K","L","M",
               "N","O","P","Q","R","S","T","U","V","W","X","Y","Z">>

Digits == {"0","1","2","3","4","5","6","7","8","9"}

DigitVal(c) ==
  CASE c = "0" -> 0 [] c = "1" -> 1 [] c = "2" -> 2 [] c = "3" -> 3
    [] c = "4" -> 4 [] c = "5" -> 5 [] c = "6" -> 6 [] c = "7" -> 7
    [] c = "8" -> 8 [] c = "9" -> 9

DigitChar(n) == <<"0","1","2","3","4","5","6","7","8","9">>[n + 1]

UpperOf == [c \in { LowerCase[i] : i \in 1..26 } |->
              UpperCase[CHOOSE i \in 1..26 : LowerCase[i] = c]]
LowerOf == [c \in { UpperCase[i] : i \in 1..26 } |->
              LowerCase[CHOOSE i \in 1..26 : UpperCase[i] = c]]

\* str.upper() on one character
upper_char(c) == IF c \in DOMAIN UpperOf THEN UpperOf[c] ELSE c

\* case folding used by re.IGNORECASE on one character
lower_char(c) == IF c \in DOMAIN LowerOf THEN LowerOf[c] ELSE c

\* str.upper()
upper(s) == [i \in 1..Len(s) |-> upper_char(s[i])]

\* the characters \s matches and str.strip() removes
IsSpace(c) == c \in {" ", "\n", "\t"}

\* s[i:] with 1-based i
Tail_from(s, i) == SubSeq(s, i, Len(s))

\* str.strip()
strip(s) ==
  IF \A i \in 1..Len(s) : IsSpace(s[i])
  THEN <<>>
  ELSE LET a == CHOOSE i \in 1..Len(s) :
                  /\ ~IsSpace(s[i])
                  /\ \A j \in 1..(i - 1) : IsSpace(s[j])
           b == CHOOSE i \in 1..Len(s) :
                  /\ ~IsSpace(s[i])
                  /\ \A j \in (i + 1)..Len(s) : IsSpace(s[j])
       IN SubSeq(s, a, b)

\* WHITESPACE_PATTERN.sub(' ', s) on s[lo..hi]: every run of whitespace
\* becomes one space (the run is replaced where it starts)
RECURSIVE WHITESPACE_sub(_, _, _)
WHITESPACE_sub(s, lo, hi) ==
  IF lo > hi THEN <<>>
  ELSE IF lo = hi
       THEN IF ~IsSpace(s[lo]) THEN <<s[lo]>>
            ELSE IF lo > 1 /\ IsSpace(s[lo - 1]) THEN <<>> ELSE <<" ">>
       ELSE WHITESPACE_sub(s, lo, (lo + hi) \div 2)
            \o WHITESPACE_sub(s, (lo + hi) \div 2 + 1, hi)

(***************************************************************************)
(* The compiled patterns                                                   *)
(***************************************************************************)
EOH == <<"<","e","o","h",">">>
EOR == <<"<","e","o","r",">">>

\* a five-character marker pattern compiled with re.IGNORECASE matches at i
MarkerAt(s, i, marker) ==
  /\ i + Len(marker) - 1 <= Len(s)
  /\ \A k \in 1..Len(marker) : lower_char(s[i + k - 1]) = marker[k]

Min(S) == CHOOSE x \in S : \A y \in S : x <= y

\* least index >= i whose character is in the set, or Len(s) + 1
FirstIn(s, i, set) ==
  LET at == { j \in i..Len(s) : s[j] \in set }
  IN IF at = {} THEN Len(s) + 1 ELSE Min(at)

\* least index >= i whose character is not in the set, or Len(s) + 1
FirstNotIn(s, i, set) ==
  LET at == { j \in i..Len(s) : s[j] \notin set }
  IN IF at = {} THEN Len(s) + 1 ELSE Min(at)

\* pattern.split(s, maxsplit): the pieces between the non-overlapping
\* matches taken left to right; maxsplit = 0 means no limit.  A match
\* starts at a '<', so the search goes from one '<' to the next.
RECURSIVE PatternSplit(_, _, _, _, _, _)
PatternSplit(s, marker, from, i, maxsplit, done) ==
  IF i > Len(s) THEN <<SubSeq(s, from, Len(s))>>
  ELSE IF maxsplit > 0 /\ done >= maxsplit THEN <<SubSeq(s, from, Len(s))>>
  ELSE IF MarkerAt(s, i, marker)
       THEN <<SubSeq(s, from, i - 1)>>
            \o PatternSplit(s, marker, i + Len(marker), i + Len(marker),
                            maxsplit, done + 1)
       ELSE PatternSplit(s, marker, from, FirstIn(s, i + 1, {"<"}), maxsplit, done)

\* a split with no maxsplit
EOH_PATTERN_split_no_limit(s) == PatternSplit(s, EOH, 1, 1, 0, 0)

EOH_PATTERN_split(s) == PatternSplit(s, EOH, 1, 1, 1, 0)
EOR_PATTERN_split(s) == PatternSplit(s, EOR, 1, 1, 0, 0)

NoMatch == [ok |-> FALSE, name |-> <<>>, length |-> <<>>, value |-> <<>>, end |-> 0]

\* TAG_PATTERN = <([^:>]+):(\d+)>([^<]*) tried at position i.  The name
\* cannot hold ':' or '>', so it runs to the first of them, which must be
\* ':'; the digits run to the first non-digit, which must be '>'; the
\* value runs to the next '<' or the end.  "end" is the index after the
\* match.
TagNameStop == {":", ">"}
TAG_PATTERN_match(s, i) ==
  IF i > Len(s) \/ s[i] # "<" THEN NoMatch
  ELSE LET j == FirstIn(s, i + 1, TagNameStop)
       IN IF j > Len(s) \/ s[j] # ":" \/ j = i + 1 THEN NoMatch
          ELSE LET k == FirstNotIn(s, j + 1, Digits)
               IN IF k > Len(s) \/ s[k] # ">" \/ k = j + 1 THEN NoMatch
                  ELSE LET e == FirstIn(s, k + 1, {"<"})
                       IN [ok |-> TRUE,
                           name |-> SubSeq(s, i + 1, j - 1),
                           length |-> SubSeq(s, j + 1, k - 1),
                           value |-> SubSeq(s, k + 1, e - 1),
                           end |-> e]

\* TAG_PATTERN.finditer(s): the non-overlapping matches, left to right; a
\* match starts at a '<', so the search goes from one '<' to the next
RECURSIVE TAG_PATTERN_finditer(_, _)
TAG_PATTERN_finditer(s, i) ==
  IF i > Len(s) THEN <<>>
  ELSE LET m == TAG_PATTERN_match(s, i)
       IN IF m.ok THEN <<m>> \o TAG_PATTERN_finditer(s, m.end)
          ELSE TAG_PATTERN_finditer(s, FirstIn(s, i + 1, {"<"}))

(***************************************************************************)
(* Python values                                                           *)
(***************************************************************************)
PyNone == [t |-> "None"]
PyUnset == [t |-> "unset"]
PyStr(s) == [t |-> "str", v |-> s]
PyList(l) == [t |-> "list", v |-> l]
PyDict(d) == [t |-> "dict", v |-> d]

\* A float is <<kind, sign, mantissa, exponent>>: sign * mantissa * 10^exponent
\* with no trailing zero in the mantissa, or an infinity, or a NaN.  The
\* literals of the model have a few digits, which a double tells apart.
PyFloat(kind, sign, mant, exp) == [t |-> "float", v |-> <<kind, sign, mant, exp>>]

\* largest decimal exponent of a finite double
FloatMaxExp10 == 308

\* a digitpart that takes no underscore
RECURSIVE DigitPartEnd_digits_only(_, _)
DigitPartEnd_digits_only(s, p) ==
  IF p <= Len(s) /\ s[p] \in Digits THEN DigitPartEnd_digits_only(s, p + 1) ELSE p

\* end of the digitpart starting at p: digit (["_"] digit)*; p when none
RECURSIVE DigitPartEnd(_, _)
DigitPartEnd(s, p) ==
  IF p <= Len(s) /\ s[p] \in Digits
  THEN IF p + 2 <= Len(s) /\ s[p + 1] = "_" /\ s[p + 2] \in Digits
       THEN DigitPartEnd(s, p + 2)
       ELSE IF p + 1 <= Len(s) /\ s[p + 1] \in Digits
            THEN DigitPartEnd(s, p + 1)
            ELSE p + 1
  ELSE p

\* the digits of s[a..b-1], underscores dropped
DigitsOf(s, a, b) == SelectSeq(SubSeq(s, a, b - 1), LAMBDA c : c \in Digits)

RECURSIVE IntOf(_)
IntOf(ds) ==
  IF ds = <<>> THEN 0
  ELSE 10 * IntOf(SubSeq(ds, 1, Len(ds) - 1)) + DigitVal(ds[Len(ds)])

RECURSIVE NumDigits(_)
NumDigits(n) == IF n < 10 THEN 1 ELSE 1 + NumDigits(n \div 10)

RECURSIVE Normalise(_, _, _)
Normalise(sign, mant, exp) ==
  IF mant = 0 THEN PyFloat("fin", sign, 0, 0)
  ELSE IF mant % 10 = 0 THEN Normalise(sign, mant \div 10, exp + 1)
  ELSE IF NumDigits(mant) + exp - 1 > FloatMaxExp10 THEN PyFloat("inf", sign, 0, 0)
  ELSE PyFloat("fin", sign, mant, exp)

FloatFail == [ok |-> FALSE, val |-> PyNone]

lower(s) == [i \in 1..Len(s) |-> lower_char(s[i])]

\* float(s) on a stripped string: [sign] (inf | infinity | nan | number),
\* number = digitpart ["." [digitpart]] [exponent] | "." digitpart [exponent],
\* exponent = ("e" | "E") [sign] digitpart.  ok = FALSE is ValueError.
float(s) ==
  LET p == IF Len(s) >= 1 /\ s[1] \in {"+", "-"} THEN 2 ELSE 1
      sign == IF Len(s) >= 1 /\ s[1] = "-" THEN -1 ELSE 1
      word == lower(Tail_from(s, p))
      ie == DigitPartEnd(s, p)
      hasdot == ie <= Len(s) /\ s[ie] = "."
      fs == IF hasdot THEN ie + 1 ELSE ie
      fe == IF hasdot THEN DigitPartEnd(s, fs) ELSE ie
      hasexp == fe <= Len(s) /\ s[fe] \in {"e", "E"}
      xs == IF hasexp /\ fe + 1 <= Len(s) /\ s[fe + 1] \in {"+", "-"}
            THEN fe + 2 ELSE fe + 1
      xsign == IF hasexp /\ fe + 1 <= Len(s) /\ s[fe + 1] = "-" THEN -1 ELSE 1
      xe == IF hasexp THEN DigitPartEnd(s, xs) ELSE fe
      intd == DigitsOf(s, p, ie)
      fracd == DigitsOf(s, fs, fe)
      expv == IF hasexp THEN xsign * IntOf(DigitsOf(s, xs, xe)) ELSE 0
  IN IF word \in {<<"i","n","f">>, <<"i","n","f","i","n","i","t","y">>}
     THEN [ok |-> TRUE, val |-> PyFloat("inf", sign, 0, 0)]
     ELSE IF word = <<"n","a","n">>
     THEN [ok |-> TRUE, val |-> PyFloat("nan", sign, 0, 0)]
     ELSE IF /\ intd \o fracd # <<>>
             /\ (hasexp => xe > xs)
             /\ xe = Len(s) + 1
     THEN [ok |-> TRUE,
           val |-> Normalise(sign, IntOf(intd \o fracd), expv - Len(fracd))]
     ELSE FloatFail

(***************************************************************************)
(* dict operations; a dict is a sequence of <<key, value>> in insertion    *)
(* order                                                                   *)
(***************************************************************************)
Keys(d) == [i \in 1..Len(d) |-> d[i][1]]
HasKey(d, k) == \E i \in 1..Len(d) : d[i][1] = k
Get(d, k) == d[CHOOSE i \in 1..Len(d) : d[i][1] = k][2]

\* an assignment that leaves an existing key alone
SetItem_keep_first(d, k, v) == IF HasKey(d, k) THEN d ELSE Append(d, <<k, v>>)

\* an assignment that moves an existing key to the end
SetItem_move_to_end(d, k, v) ==
  Append(SelectSeq(d, LAMBDA f : f[1] # k), <<k, v>>)

\* d[k] = v: a new key goes last, an existing key keeps its place
SetItem(d, k, v) ==
  IF HasKey(d, k)
  THEN [i \in 1..Len(d) |-> IF d[i][1] = k THEN <<k, v>> ELSE d[i]]
  ELSE Append(d, <<k, v>>)

(***************************************************************************)
(* adif_parser.py                                                          *)
(***************************************************************************)
NON_FLOAT_TAGS ==
  { <<"B","A","N","D">>,
    <<"Q","S","O","_","D","A","T","E">>,
    <<"T","I","M","E","_","O","N">>,
    <<"Q","S","O","_","D","A","T","E","_","O","F","F">>,
    <<"T","I","M","E","_","O","F","F">> }

\* a coercion that looks up no name
coerce_every_tag(tag_name, value) ==
  IF float(value).ok THEN float(value).val ELSE PyStr(value)

\* lines 67-72: the value stored for a stripped, non-empty value
coerce(tag_name, value) ==
  IF tag_name \notin NON_FLOAT_TAGS /\ float(value).ok
  THEN float(value).val
  ELSE PyStr(value)

\* a loop body that stores blank values too
store_tag_keep_blank(record, m) ==
  SetItem(record, upper(strip(m.name)),
          coerce(upper(strip(m.name)), strip(m.value)))

\* lines 61-74: one match of the loop body applied to the record
store_tag(record, m) ==
  LET value == strip(m.value)
      tag_name == upper(strip(m.name))
  IN IF value = <<>> THEN record
     ELSE SetItem(record, tag_name, coerce(tag_name, value))

RECURSIVE scan_record(_, _, _)
scan_record(matches, k, record) ==
  IF k > Len(matches) THEN record
  ELSE scan_record(matches, k + 1, store_tag(record, matches[k]))

\* lines 58-74: the record of one raw record
parse_record(raw_record) ==
  scan_record(TAG_PATTERN_finditer(raw_record, 1), 1, <<>>)

\* a loop that appends every record
RECURSIVE collect_records_keep_empty(_, _)
collect_records_keep_empty(raw_records, k) ==
  IF k > Len(raw_records) THEN <<>>
  ELSE <<PyDict(parse_record(raw_records[k]))>>
       \o collect_records_keep_empty(raw_records, k + 1)

\* lines 57-77: the records of the raw records, empty ones dropped
RECURSIVE collect_records(_, _)
collect_records(raw_records, k) ==
  IF k > Len(raw_records) THEN <<>>
  ELSE LET record == parse_record(raw_records[k])
       IN IF record # <<>>
          THEN <<PyDict(record)>> \o collect_records(raw_records, k + 1)
          ELSE collect_records(raw_records, k + 1)

parse_lines(data) == PyList(collect_records(EOR_PATTERN_split(data), 1))

\* line 38: the text with whitespace normalised
normalise(adif) == WHITESPACE_sub(strip(adif), 1, Len(strip(adif)))

\* lines 36-48: <<header, adif_data>>
parse_adif(adif) ==
  LET parts == EOH_PATTERN_split(normalise(adif))
  IN IF Len(parts) = 2
     THEN <<parse_lines(parts[1]), parse_lines(parts[2])>>
     ELSE <<PyDict(<<>>), parse_lines(parts[1])>>

(***************************************************************************)
(* __init__.py: datetime.strptime(s, '%Y%m%d %H%M%S') and                 *)
(* strftime('%Y-%m-%d %H%M')                                               *)
(***************************************************************************)
IsDigitAt(s, p) == p <= Len(s) /\ s[p] \in Digits
D1(s, p) == DigitVal(s[p])
D2(s, p) == 10 * DigitVal(s[p]) + DigitVal(s[p + 1])

\* length of the run of whitespace starting at p
RECURSIVE SpaceRun(_, _)
SpaceRun(s, p) == IF p <= Len(s) /\ IsSpace(s[p]) THEN 1 + SpaceRun(s, p + 1) ELSE 0

\* The alternatives of one directive's regular expression that match at p,
\* in the order the regular expression tries them, as <<length, value>>:
\*   Y  \d\d\d\d                       m  1[0-2]|0[1-9]|[1-9]
\*   d  3[01]|[12]\d|0[1-9]|[1-9]| [1-9]
\*   H  2[0-3]|[0-1]\d|\d   M  [0-5]\d|\d   S  6[0-1]|[0-5]\d|\d
\*   a space of the format is \s+ (longest run first)
DirectiveOptions(s, p, dir) ==
  LET two == IsDigitAt(s, p) /\ IsDigitAt(s, p + 1)
      v2 == D2(s, p)
      both(c2, c1) == (IF two /\ c2 THEN << <<2, v2>> >> ELSE <<>>)
                      \o (IF IsDigitAt(s, p) /\ c1 THEN << <<1, D1(s, p)>> >> ELSE <<>>)
  IN CASE dir = "Y" ->
            IF \A k \in 0..3 : IsDigitAt(s, p + k)
            THEN << <<4, 100 * D2(s, p) + D2(s, p + 2)>> >> ELSE <<>>
       [] dir = "m" -> both(v2 \in 1..12, D1(s, p) >= 1)
       [] dir = "d" ->
            both(v2 \in 1..31, D1(s, p) >= 1)
            \o (IF /\ p + 1 <= Len(s) /\ s[p] = " "
                   /\ IsDigitAt(s, p + 1) /\ D1(s, p + 1) >= 1
                THEN << <<2, D1(s, p + 1)>> >> ELSE <<>>)
       [] dir = "H" -> both(v2 \in 0..23, TRUE)
       [] dir = "M" -> both(v2 \in 0..59, TRUE)
       [] dir = "S" -> both(v2 \in 0..61, TRUE)
       [] dir = "sp" ->
            LET n == SpaceRun(s, p) IN [i \in 1..n |-> <<n + 1 - i, 0>>]

DATE_FORMAT == <<"Y", "m", "d", "sp", "H", "M", "S">>

StrpFail == [ok |-> FALSE, end |-> 0, vals |-> <<>>]

\* the first way, in the regular expression's backtracking order, to match
\* the directives from k on at position p
RECURSIVE FormatMatch(_, _, _, _)
RECURSIVE TryOptions(_, _, _, _, _, _)
FormatMatch(s, p, k, vals) ==
  IF k > Len(DATE_FORMAT) THEN [ok |-> TRUE, end |-> p, vals |-> vals]
  ELSE TryOptions(s, p, k, vals, DirectiveOptions(s, p, DATE_FORMAT[k]), 1)
TryOptions(s, p, k, vals, opts, j) ==
  IF j > Len(opts) THEN StrpFail
  ELSE LET r == FormatMatch(s, p + opts[j][1], k + 1, Append(vals, opts[j][2]))
       IN IF r.ok THEN r ELSE TryOptions(s, p, k, vals, opts, j + 1)

IsLeap(y) == (y % 4 = 0 /\ y % 100 # 0) \/ y % 400 = 0
DaysInMonth(y, m) ==
  IF m = 2 THEN (IF IsLeap(y) THEN 29 ELSE 28)
  ELSE IF m \in {4, 6, 9, 11} THEN 30 ELSE 31

\* ok = FALSE is ValueError: no match, unconverted data, or a field out of
\* range for datetime
strptime(s) ==
  LET r == FormatMatch(s, 1, 1, <<>>)
  IN IF /\ r.ok
        /\ r.end = Len(s) + 1
        /\ r.vals[1] >= 1
        /\ r.vals[3] <= DaysInMonth(r.vals[1], r.vals[2])
        /\ r.vals[7] <= 59
     THEN [ok |-> TRUE, vals |-> r.vals]
     ELSE [ok |-> FALSE, vals |-> <<>>]

RECURSIVE Decimal(_)
Decimal(n) == IF n < 10 THEN <<DigitChar(n)>>
              ELSE Decimal(n \div 10) \o <<DigitChar(n % 10)>>
Pad2(n) == <<DigitChar(n \div 10), DigitChar(n % 10)>>

\* strftime('%Y-%m-%d %H%M') of <<Y, m, d, sp, H, M, S>>
strftime(vals) ==
  Decimal(vals[1]) \o <<"-">> \o Pad2(vals[2]) \o <<"-">> \o Pad2(vals[3])
  \o <<" ">> \o Pad2(vals[5]) \o Pad2(vals[6])

QSO_DATE == <<"Q","S","O","_","D","A","T","E">>
TIME_ON == <<"T","I","M","E","_","O","N">>
DATE_TIME == <<"D","A","T","E","_","T","I","M","E">>

\* a loop body that puts the timestamp in place of the date
process_row_replaces_date(row) ==
  IF ~HasKey(row.v, QSO_DATE) \/ ~HasKey(row.v, TIME_ON)
  THEN [ok |-> FALSE, row |-> row]
  ELSE LET start_date == strptime(Get(row.v, QSO_DATE).v \o <<" ">>
                                  \o Get(row.v, TIME_ON).v)
       IN IF ~start_date.ok THEN [ok |-> FALSE, row |-> row]
          ELSE [ok |-> TRUE,
                row |-> PyDict(SetItem(row.v, QSO_DATE,
                                       PyStr(strftime(start_date.vals))))]

\* lines 89-90: the loop body's effect on one row; ok = FALSE is the
\* KeyError, TypeError or ValueError that ends process_lines
process_row(row) ==
  IF ~HasKey(row.v, QSO_DATE) \/ ~HasKey(row.v, TIME_ON)
  THEN [ok |-> FALSE, row |-> row]
  ELSE IF Get(row.v, QSO_DATE).t # "str" \/ Get(row.v, TIME_ON).t # "str"
  THEN [ok |-> FALSE, row |-> row]
  ELSE LET start_date == strptime(Get(row.v, QSO_DATE).v \o <<" ">>
                                  \o Get(row.v, TIME_ON).v)
       IN IF ~start_date.ok THEN [ok |-> FALSE, row |-> row]
          ELSE [ok |-> TRUE,
                row |-> PyDict(SetItem(row.v, DATE_TIME,
                                       PyStr(strftime(start_date.vals))))]

(***************************************************************************)
(* The ADIF files the model reads                                          *)
(***************************************************************************)
MaxChunks == 4
MaxValParts == 3
MaxTags == 3

RECURSIVE Concat(_)
Concat(ss) == IF ss = <<>> THEN <<>> ELSE Head(ss) \o Concat(Tail(ss))

\* the sequences of at most n elements of S
SeqsUpTo(S, n) == UNION { [1..k -> S] : k \in 0..n }

\* pieces of a log: the markers, whitespace, and the tags of a contact
DocChunks ==
  { <<"<","e","o","h",">">>,
    <<"<","E","O","R",">">>,
    <<" ","\n">>,
    <<"<","q","s","o","_","d","a","t","e",":","8",">","2","0","2","4","0","6","0","1","\n","<","t","i","m","e","_","o","n",":","4",">","1","2","0","0">>,
    <<"<","F","r","e","q",":","2",">","1","4","<","Q","S","O","_","D","A","T","E",":","8",">","2","0","2","4","0","2","3","0","<","t","i","m","e","_","o","n",":","4",">","1","2","0","0">> }

\* the two marker patterns in every letter case, between two tags
MarkerCases ==
  { <<"<","a",":","1",">","x">> \o <<"<", c1, c2, c3, ">">> \o <<"<","b",":","1",">","y">> :
      c1 \in {"e", "E"}, c2 \in {"o", "O"}, c3 \in {"h", "H", "r", "R"} }

DocInputs == { Concat(cs) : cs \in SeqsUpTo(DocChunks, MaxChunks) } \cup MarkerCases

\* pieces of a tag's value
ValueParts ==
  { <<"1">>,
    <<".">>,
    <<"-">>,
    <<"e">>,
    <<"_">>,
    <<"N","a","N">>,
    <<"i","n","f">>,
    <<"m">>,
    <<" ">> }

\* the names the values are read under
ValueTagNames ==
  { <<"f","r","e","q">>,
    <<" ","b","A","n","d"," ">> }

\* spellings of the names that stay strings
NonFloatSpellings ==
  { <<"B","A","N","D">>,
    <<"b","a","n","d"," ">>,
    <<" ","Q","s","o","_","D","a","t","e">>,
    <<"t","i","m","e","_","O","N">>,
    <<"Q","S","O","_","D","A","T","E","_","o","f","f"," ">>,
    <<" "," ","T","i","m","e","_","O","f","f">> }

ValueInputs ==
  { <<"<">> \o n \o <<":","1",">">> \o Concat(vs) :
      n \in ValueTagNames, vs \in SeqsUpTo(ValueParts, MaxValParts) }
  \cup { <<"<">> \o n \o <<":","2",">","2","0">> : n \in NonFloatSpellings }
  \cup { <<"<">> \o n \o <<":","2",">","2","0">> \o EOH \o <<"<">> \o n \o <<":","1",">","7">> :
           n \in NonFloatSpellings }

\* tags of one record: well formed, empty, and malformed
TagChunks ==
  { <<"<","c","a","l","l",":","4",">","W","1","A","W">>,
    <<"<"," ","C","a","l","l"," ",":","2",">","K","1"," ">>,
    <<"<","C","A","L","L",":","0",">"," ">>,
    <<"<","f","r","e","q",":","2",">","1","4">>,
    <<"<","b","a","n","d"," ","2",">","2","0","m">>,
    <<"<","a",":","x",">","v">>,
    <<"<","c","a","l","l">> }

TagInputs == { Concat(cs) : cs \in SeqsUpTo(TagChunks, MaxTags) }

(***************************************************************************)
(* __init__.py: main                                                       *)
(***************************************************************************)
\* adif.contacts, the contacts main hands to gen_cabrillo
contacts == adif_data

InitWith(inputs) ==
  /\ pc = "config"
  /\ text \in inputs
  /\ header = PyUnset
  /\ adif_data = PyUnset
  /\ parsed = PyUnset
  /\ out = <<>>
  /\ exitmsg = <<>>
  /\ row_i = 0

Init == InitWith(DocInputs)
InitValue == InitWith(ValueInputs)
InitTags == InitWith(TagInputs)

\* line 133: Config(opts.config); an unreadable or incomplete file raises
LoadConfig ==
  /\ pc = "config"
  /\ \E ok \in BOOLEAN : pc' = IF ok THEN "open" ELSE "raised"
  /\ UNCHANGED <<text, header, adif_data, parsed, out, exitmsg, row_i>>

\* lines 134-141: open the ADIF file and build ParseADIF from it
OpenAdif ==
  /\ pc = "open"
  /\ \E found \in BOOLEAN :
       IF found
       THEN /\ \E doc \in {parse_adif(text)} :
                 /\ header' = doc[1]
                 /\ adif_data' = doc[2]
                 /\ parsed' = [t |-> "doc", header |-> doc[1], adif_data |-> doc[2]]
            /\ pc' = "check"
            /\ exitmsg' = exitmsg
       ELSE /\ pc' = "exit"
            /\ exitmsg' = "File not found"
            /\ UNCHANGED <<header, adif_data, parsed>>
  /\ UNCHANGED <<text, out, row_i>>

\* lines 137-138 and 143
CheckContacts ==
  /\ pc = "check"
  /\ IF contacts = PyNone
     THEN pc' = "exit" /\ exitmsg' = "No Contacts to process"
     ELSE pc' = "gen_cabrillo" /\ exitmsg' = exitmsg
  /\ UNCHANGED <<text, header, adif_data, parsed, out, row_i>>

\* lines 107-116, 95-99: gen_cabrillo opens the output and writes the header
make_header ==
  /\ pc = "gen_cabrillo"
  /\ out' = Append(out, [kind |-> "header", row |-> PyNone])
  /\ row_i' = 1
  /\ pc' = "process_lines"
  /\ UNCHANGED <<text, header, adif_data, parsed, exitmsg>>

\* lines 88-92: one turn of the loop over the contacts
process_lines ==
  /\ pc = "process_lines"
  /\ row_i <= Len(contacts.v)
  /\ LET r == process_row(contacts.v[row_i])
     IN IF r.ok
        THEN /\ adif_data' = PyList([contacts.v EXCEPT ![row_i] = r.row])
             /\ out' = Append(out, [kind |-> "line", row |-> r.row])
             /\ row_i' = row_i + 1
             /\ pc' = pc
        ELSE /\ pc' = "raised"
             /\ UNCHANGED <<adif_data, out, row_i>>
  /\ UNCHANGED <<text, header, parsed, exitmsg>>

\* lines 102-104, 118: after the last contact, the footer
make_footer ==
  /\ pc = "process_lines"
  /\ row_i > Len(contacts.v)
  /\ out' = Append(out, [kind |-> "footer", row |-> PyNone])
  /\ pc' = "done"
  /\ UNCHANGED <<text, header, adif_data, parsed, exitmsg, row_i>>

Next ==
  \/ LoadConfig
  \/ OpenAdif
  \/ CheckContacts
  \/ make_header
  \/ process_lines
  \/ make_footer

Spec == Init /\ [][Next]_vars
SpecValue == InitValue /\ [][Next]_vars
SpecTags == InitTags /\ [][Next]_vars

(***************************************************************************)
(* What the input says, read off the text itself                           *)
(***************************************************************************)
Parsed == parsed.t = "doc"

\* the text parse_adif works on
NText == normalise(text)

EohPositions(T) == { i \in 1..Len(T) : MarkerAt(T, i, EOH) }
HasEoh(T) == EohPositions(T) # {}
FirstEoh(T) == CHOOSE i \in EohPositions(T) : \A j \in EohPositions(T) : i <= j
HeaderText(T) == SubSeq(T, 1, FirstEoh(T) - 1)
BodyText(T) == IF HasEoh(T) THEN SubSeq(T, FirstEoh(T) + Len(EOH), Len(T)) ELSE T

\* the tags of a raw record, and those whose value is not blank
Tags(raw) == TAG_PATTERN_finditer(raw, 1)
NameOf(m) == upper(strip(m.name))
ValueOf(m) == strip(m.value)
LiveTags(raw) == SelectSeq(Tags(raw), LAMBDA m : ValueOf(m) # <<>>)
FieldBearing(raw) == LiveTags(raw) # <<>>

\* the raw records of the body, and the place in the output of the record
\* of the k-th of them
BodyRaw == EOR_PATTERN_split(BodyText(NText))
RecIndex(R, k) == Cardinality({ j \in 1..k : FieldBearing(R[j]) })

\* the tags of a raw record that are the last live tag of their name
IsLastOfName(L, i) == \A j \in (i + 1)..Len(L) : NameOf(L[j]) # NameOf(L[i])
IsFirstOfName(L, i) == \A j \in 1..(i - 1) : NameOf(L[j]) # NameOf(L[i])

\* every record of a header or of a list of contacts
RecordsOf(x) == IF x.t = "list" THEN { x.v[i] : i \in 1..Len(x.v) } ELSE {}
Fields(rec) == { rec.v[i] : i \in 1..Len(rec.v) }

(***************************************************************************)
(* C1  Numeric coercion of the other tags                                  *)
(***************************************************************************)
IsDigitString(s) == s # <<>> /\ \A i \in 1..Len(s) : s[i] \in Digits

\* digit (["_"] digit)*
IsDigitPart(s) ==
  /\ s # <<>>
  /\ s[1] \in Digits /\ s[Len(s)] \in Digits
  /\ \A i \in 1..Len(s) : s[i] \in Digits \cup {"_"}
  /\ \A i \in 1..(Len(s) - 1) : ~(s[i] = "_" /\ s[i + 1] = "_")

Unsigned(s) == IF s # <<>> /\ s[1] \in {"+", "-"} THEN Tail(s) ELSE s

\* digits with at most one decimal point and at least one digit
IsMantissa(s, Part(_)) ==
  \/ Part(s)
  \/ \E d \in 1..Len(s) :
       LET left == SubSeq(s, 1, d - 1)
           right == SubSeq(s, d + 1, Len(s))
       IN /\ s[d] = "."
          /\ left = <<>> \/ Part(left)
          /\ right = <<>> \/ Part(right)
          /\ left # <<>> \/ right # <<>>

\* a plain decimal numeral: optional sign, digits, optional decimal point
IsPlainDecimal(s) == IsMantissa(Unsigned(s), IsDigitString)

\* what float() takes: a sign, then inf, infinity or nan in any letter case,
\* or a decimal numeral that may group its digits with single underscores
\* and may carry an exponent
IsFloatLiteral(s) ==
  LET u == Unsigned(s)
  IN \/ lower(u) \in { <<"i","n","f">>, <<"n","a","n">>,
                       <<"i","n","f","i","n","i","t","y">> }
     \/ IsMantissa(u, IsDigitPart)
     \/ \E e \in 1..Len(u) :
          /\ u[e] \in {"e", "E"}
          /\ IsMantissa(SubSeq(u, 1, e - 1), IsDigitPart)
          /\ IsDigitPart(Unsigned(SubSeq(u, e + 1, Len(u))))

\* every last live tag of a name outside NON_FLOAT_TAGS is stored as
\* a number when Numeral holds of its trimmed value, else as that string
CoercedBy(Numeral(_)) ==
  \A R \in {BodyRaw} : \A k \in 1..Len(R) : \A L \in {LiveTags(R[k])} :
    \A i \in 1..Len(L) :
      (IsLastOfName(L, i) /\ NameOf(L[i]) \notin NON_FLOAT_TAGS) =>
        \E f \in Fields(parsed.adif_data.v[RecIndex(R, k)]) :
          /\ f[1] = NameOf(L[i])
          /\ IF Numeral(ValueOf(L[i]))
             THEN f[2].t = "float"
             ELSE f[2] = PyStr(ValueOf(L[i]))

\* C1 as stated: a tag outside NON_FLOAT_TAGS with a non-empty trimmed value
\* is stored as a number exactly when the value is a plain decimal numeral
\* (optional sign, digits, optional decimal point), else as the trimmed string.
C1_PlainDecimalOnly == Parsed => CoercedBy(IsPlainDecimal)

\* C1 amended: a tag outside NON_FLOAT_TAGS with a non-empty trimmed value is
\* stored as a number exactly when float() accepts the value (a plain decimal
\* numeral, or one with an exponent or underscore-grouped digits, or
\* inf/infinity/nan), else as the trimmed string unchanged.
C1_FloatLiteral == Parsed => CoercedBy(IsFloatLiteral)

\* a value that is no plain decimal numeral has been stored as a number
C1_Witness ==
  /\ Parsed
  /\ \E R \in {BodyRaw} : \E k \in 1..Len(R) : \E L \in {LiveTags(R[k])} :
       \E i \in 1..Len(L) :
         /\ NameOf(L[i]) \notin NON_FLOAT_TAGS
         /\ ~IsPlainDecimal(ValueOf(L[i]))
         /\ \E f \in Fields(parsed.adif_data.v[RecIndex(R, k)]) :
              f[1] = NameOf(L[i]) /\ f[2].t = "float"

(***************************************************************************)
(* C2  The date, time and band fields stay strings                         *)
(***************************************************************************)
AllRecords == RecordsOf(header) \cup RecordsOf(adif_data)

\* C2: in every record of the header and of the contacts, a field named
\* BAND, QSO_DATE, TIME_ON, QSO_DATE_OFF or TIME_OFF holds a string.
C2_NonFloatTagsAreStrings ==
  \A rec \in AllRecords :
    \A f \in Fields(rec) : f[1] \in NON_FLOAT_TAGS => f[2].t = "str"

\* such a field holds a string that float() would have taken, in a contact
\* and in a header
C2_Witness ==
  /\ \E rec \in RecordsOf(adif_data) : \E f \in Fields(rec) :
       f[1] \in NON_FLOAT_TAGS /\ f[2].t = "str" /\ float(f[2].v).ok
  /\ \E rec \in RecordsOf(header) : \E f \in Fields(rec) :
       f[1] \in NON_FLOAT_TAGS /\ f[2].t = "str" /\ float(f[2].v).ok
  /\ \E m \in { Tags(NText)[i] : i \in 1..Len(Tags(NText)) } :
       NameOf(m) \in NON_FLOAT_TAGS /\ m.name # NameOf(m)

RECURSIVE Pieces(_)
Pieces(T) ==
  IF T = <<>> THEN <<>>
  ELSE LET e == FirstIn(T, 2, {"<"})
       IN <<SubSeq(T, 1, e - 1)>> \o Pieces(SubSeq(T, e, Len(T)))

\* the text without the pieces Drop holds of
Without(T, Drop(_)) == Concat(SelectSeq(Pieces(T), LAMBDA p : ~Drop(p)))

IsEohPiece(p) == MarkerAt(p, 1, EOH)
IsEorPiece(p) == MarkerAt(p, 1, EOR)

\* C4: without a marker the header is empty and the contacts are read from
\* the whole text; with one the header is read from the text before the first
\* marker and the contacts from all the text after it, where a later marker
\* adds no field and no split.
C4_SplitAtFirstEoh ==
  Parsed =>
    \A T \in {NText} :
      /\ parsed.header = IF HasEoh(T) THEN parse_lines(HeaderText(T))
                         ELSE PyDict(<<>>)
      /\ \A B \in {BodyText(T)} :
           /\ parsed.adif_data = parse_lines(B)
           /\ HasEoh(B) => parsed.adif_data = parse_lines(Without(B, IsEohPiece))

\* two markers, with a contact after the second
C4_Witness ==
  /\ Parsed
  /\ HasEoh(BodyText(NText))
  /\ parsed.header.t = "list" /\ parsed.header.v # <<>>
  /\ parsed.adif_data.v # <<>>

(***************************************************************************)
(* C5  The header as one record                                            *)
(***************************************************************************)
\* C5: with a marker, the header is the one record the tag scanner reads from
\* the whole text before the marker; an end-of-record marker in it does
\* not segment it.
C5_HeaderIsOneRecord ==
  (Parsed /\ parsed.header.t = "list") =>
    \A rec \in {parse_record(HeaderText(NText))} :
      parsed.header.v = IF rec = <<>> THEN <<>> ELSE <<PyDict(rec)>>

(***************************************************************************)
(* C6  The document after rendering                                        *)
(***************************************************************************)
\* C6: once built, the header and the contacts stay as the parser built them.
C6_DocumentUnchanged ==
  Parsed => (header = parsed.header /\ adif_data = parsed.adif_data)

DropKey(d, k) == SelectSeq(d, LAMBDA f : f[1] # k)

\* C6 amended: rendering changes a contact only in its DATE_TIME field, which
\* it sets to a string; the header, the number and order of the contacts,
\* and every other field, in its place, stay as the parser built them.
C6_OnlyDateTimeSet ==
  Parsed =>
    /\ header = parsed.header
    /\ adif_data.t = "list"
    /\ Len(adif_data.v) = Len(parsed.adif_data.v)
    /\ \A k \in 1..Len(adif_data.v) :
         /\ DropKey(adif_data.v[k].v, DATE_TIME)
              = DropKey(parsed.adif_data.v[k].v, DATE_TIME)
         /\ adif_data.v[k] # parsed.adif_data.v[k] =>
              /\ HasKey(adif_data.v[k].v, DATE_TIME)
              /\ Get(adif_data.v[k].v, DATE_TIME).t = "str"

\* a contact has been rendered and differs from what the parser built
C6_Witness ==
  /\ Parsed
  /\ \E k \in 1..Len(out) : out[k].kind = "line"
  /\ \E k \in 1..Len(adif_data.v) : adif_data.v[k] # parsed.adif_data.v[k]

(***************************************************************************)
(* C7  No empty record                                                     *)
(***************************************************************************)
\* every character is whitespace or part of an end-of-record marker
OnlyBlankAndEor(T) ==
  \A i \in 1..Len(T) :
    IsSpace(T[i]) \/ \E j \in (i - Len(EOR) + 1)..i : j >= 1 /\ MarkerAt(T, j, EOR)

\* C7: no record of the parse has zero fields; the contacts are as many as the
\* segments that hold a field; a text of whitespace and end-of-record
\* markers yields no contact.
C7_NoEmptyRecord ==
  Parsed =>
    /\ \A rec \in RecordsOf(parsed.header) \cup RecordsOf(parsed.adif_data) :
         rec.v # <<>>
    /\ \A R \in {BodyRaw} :
         Len(parsed.adif_data.v)
           = Cardinality({ k \in 1..Len(R) : FieldBearing(R[k]) })
    /\ OnlyBlankAndEor(text) => parsed.adif_data.v = <<>>

\* an empty segment and a whitespace-only segment beside the one segment
\* that holds a field
C7_Witness ==
  /\ Parsed
  /\ Len(parsed.adif_data.v) = 1
  /\ \E R \in {BodyRaw} :
       /\ Len(R) >= 3
       /\ \E k \in 1..Len(R) : R[k] = <<>>
       /\ \E k \in 1..Len(R) : R[k] # <<>> /\ ~FieldBearing(R[k])

(***************************************************************************)
(* C8  A name that occurs more than once                                   *)
(***************************************************************************)
NamesOf(L) == { NameOf(L[i]) : i \in 1..Len(L) }
TagsNamed(L, n) == { i \in 1..Len(L) : NameOf(L[i]) = n }
LastNamed(L, n) == CHOOSE i \in TagsNamed(L, n) : \A j \in TagsNamed(L, n) : j <= i
FieldsNamed(rec, n) == { i \in 1..Len(rec.v) : rec.v[i][1] = n }

\* C8: when a record has two or more tags of one normalised name, of which
\* one at least has a non-blank value, the record holds exactly one field of
\* that name and its value is that of the last such tag with a non-blank
\* value; when all of them are blank the record holds no field of that name.
C8_LastOccurrenceWins ==
  Parsed =>
    \A R \in {BodyRaw} : \A k \in 1..Len(R) :
      \A A \in {Tags(R[k])} : \A L \in {LiveTags(R[k])} :
        \A n \in NamesOf(A) :
          Cardinality(TagsNamed(A, n)) >= 2 =>
            IF TagsNamed(L, n) # {}
            THEN \A rec \in {parsed.adif_data.v[RecIndex(R, k)]} :
                   /\ Cardinality(FieldsNamed(rec, n)) = 1
                   /\ Get(rec.v, n) = coerce(n, ValueOf(L[LastNamed(L, n)]))
            ELSE L # <<>> =>
                   FieldsNamed(parsed.adif_data.v[RecIndex(R, k)], n) = {}

\* three tags of one name in different spellings: the first and the second
\* with different values, the last one blank
C8_Witness ==
  /\ Parsed
  /\ \E A \in {Tags(NText)} :
       \E i, j, l \in 1..Len(A) :
         /\ i < j /\ j < l /\ l = Len(A)
         /\ NameOf(A[i]) = NameOf(A[j]) /\ NameOf(A[j]) = NameOf(A[l])
         /\ A[i].name # A[j].name
         /\ ValueOf(A[i]) # <<>> /\ ValueOf(A[j]) # <<>>
         /\ ValueOf(A[i]) # ValueOf(A[j])
         /\ ValueOf(A[l]) = <<>>
  /\ Len(parsed.adif_data.v) = 1

(***************************************************************************)
(* C9  Tags that are skipped                                               *)
(***************************************************************************)
DocOf(d) == [t |-> "doc", header |-> d[1], adif_data |-> d[2]]

IsTagPiece(p) == p[1] = "<"
IsMarkerPiece(p) == IsEohPiece(p) \/ IsEorPiece(p)
WellFormed(p) == TAG_PATTERN_match(p, 1).ok

\* a piece that starts a tag and is not of the shape <NAME:LENGTH>VALUE, or
\* is of that shape with a blank value
Skipped(p) ==
  /\ IsTagPiece(p)
  /\ ~IsMarkerPiece(p)
  /\ ~WellFormed(p) \/ strip(TAG_PATTERN_match(p, 1).value) = <<>>

\* the name of the piece ends before the next '<'
Terminated(p) == \E i \in 1..Len(p) : p[i] \in {":", ">"}
Unterminated(p) == IsTagPiece(p) /\ ~Terminated(p)

\* piece i is an unterminated tag and the pieces after it are, up to a well
\* formed tag with a non-blank value
LeadsIntoTag(P, i) ==
  \E j \in (i + 1)..Len(P) :
    /\ \A l \in i..(j - 1) : Unterminated(P[l])
    /\ WellFormed(P[j]) /\ ~Skipped(P[j])

KeepPieces(P, Keep(_)) ==
  Concat([k \in 1..Cardinality({ i \in 1..Len(P) : Keep(i) }) |->
            P[CHOOSE i \in 1..Len(P) :
                Keep(i) /\ Cardinality({ j \in 1..i : Keep(j) }) = k]])

\* C9 as stated: the parse is what it would be with the skipped tags taken
\* out of the text.
C9_SkippedTagsChangeNothing ==
  Parsed => parsed = DocOf(parse_adif(Without(NText, Skipped)))

\* C9 amended: the parse is what it would be with the skipped tags taken out
\* of the text, except those that are an unterminated <NAME leading into a
\* well formed tag with a non-blank value: the scanner reads such a <NAME
\* together with that tag as one tag, named after both.
C9_SkippedTagsChangeNothingUnlessMerged ==
  Parsed =>
    \A P \in {Pieces(NText)} :
      /\ parsed = DocOf(parse_adif(
                    KeepPieces(P, LAMBDA i : ~Skipped(P[i]) \/ LeadsIntoTag(P, i))))
      /\ \A i \in 1..(Len(P) - 1) :
           (/\ Unterminated(P[i]) /\ (i > 1 => Terminated(P[i - 1]))
            /\ WellFormed(P[i + 1]) /\ ~Skipped(P[i + 1])) =>
             \E rec \in RecordsOf(parsed.adif_data) :
               HasKey(rec.v, upper(strip(Tail(P[i]) \o <<"<">>
                                         \o TAG_PATTERN_match(P[i + 1], 1).name)))

\* a malformed tag and a blank one among tags that give fields
C9_Witness ==
  /\ Parsed
  /\ \E P \in {Pieces(NText)} :
       /\ \E i \in 1..Len(P) : Skipped(P[i]) /\ Terminated(P[i]) /\ ~WellFormed(P[i])
       /\ \E i \in 1..Len(P) : Skipped(P[i]) /\ WellFormed(P[i])
  /\ parsed.adif_data.v # <<>>

(***************************************************************************)
(* C10  Order of the records and of the fields                             *)
(***************************************************************************)
FirstNamed(L, n) == CHOOSE i \in TagsNamed(L, n) : \A j \in TagsNamed(L, n) : i <= j

\* the keys are the names of the tags, each once, in the order in which the
\* names first occur
KeysInTagOrder(keys, L) ==
  /\ { keys[i] : i \in 1..Len(keys) } = NamesOf(L)
  /\ Len(keys) = Cardinality(NamesOf(L))
  /\ \A a, b \in 1..Len(keys) :
       a < b => FirstNamed(L, keys[a]) < FirstNamed(L, keys[b])

\* C10: the contacts are the field-bearing segments of the body in their
\* order, one each; the fields of a contact stand in the order in which their
\* names first occur among its tags with a non-blank value, each with
\* the value of the last tag of its name.
C10_InputOrder ==
  Parsed =>
    \A R \in {BodyRaw} :
      /\ Len(parsed.adif_data.v)
           = Cardinality({ k \in 1..Len(R) : FieldBearing(R[k]) })
      /\ \A k \in 1..Len(R) : \A L \in {LiveTags(R[k])} :
           L # <<>> =>
             \A rec \in {parsed.adif_data.v[RecIndex(R, k)]} :
               /\ KeysInTagOrder(Keys(rec.v), L)
               /\ \A n \in NamesOf(L) :
                    Get(rec.v, n) = coerce(n, ValueOf(L[LastNamed(L, n)]))

\* two contacts with different fields, the first with a name that comes
\* back after another name
C10_Witness ==
  /\ Parsed
  /\ Len(parsed.adif_data.v) = 2
  /\ Keys(parsed.adif_data.v[1].v) # Keys(parsed.adif_data.v[2].v)
  /\ \E L \in {LiveTags(BodyRaw[1])} :
       \E i, j, l \in 1..Len(L) :
         /\ i < j /\ j < l
         /\ NameOf(L[i]) = NameOf(L[l])
         /\ NameOf(L[i]) # NameOf(L[j])
         /\ IsFirstOfName(L, j)

====
